---- MODULE Spec2Model ----
(***************************************************************************)
(* Model of the Diwan Al-Ardiya backend (src/main.py, src/schemas.py):     *)
(* the HTTP handlers over a document store, and the optional SMTP          *)
(* notification of the two lead-capture forms.                             *)
(*                                                                         *)
(* Python values: an Optional[T] is the empty set (None) or a singleton    *)
(* {v}; a str that the code inspects character by character (title,        *)
(* description, q, SMTP_PORT, an id) is a sequence of one-character        *)
(* strings, any other str is a TLA+ string; a dict is a function from its  *)
(* keys.                                                                   *)
(***************************************************************************)
EXTENDS Integers, Sequences, FiniteSets, TLC

VARIABLES db, environ, store, nextOid, inserted, pc, cur, trace, smtp, resp

vars == <<db, environ, store, nextOid, inserted, pc, cur, trace, smtp, resp>>

\* db, environ : the database handle (FALSE: db is None) and os.environ
\* store       : the collections, each the sequence of its documents
\* nextOid     : the ObjectId the next insert_one generates
\* inserted    : per collection, how many create_document calls returned
\* pc, cur     : the create_quote / create_contact request in progress
\* trace       : what the latest create_quote / create_contact request did
\* smtp        : what the SMTP server saw of the latest maybe_send_email call
\* resp        : the latest response sent

\* Bound on the number of documents inserted over a run.
MaxDocs == 2

\* main.py:55, main.py:92 (limit: Optional[int] = 100)
DefaultLimit == 100

None == {}
Some(v) == {v}
Get(o) == CHOOSE v \in o : TRUE

\* Python truthiness of an Optional[str]: None and "" are falsy.
TruthyStr(o) == o # None /\ \A v \in o : v # ""
\* the same for a str held as a sequence of characters
TruthyChars(o) == o # None /\ \A v \in o : Len(v) > 0
\* Python `a or b` on an Optional[str]
OrElse(o, dflt) == IF TruthyStr(o) THEN Get(o) ELSE dflt

Collections == {"product", "project", "quoterequest", "contactmessage"}

(***************************************************************************)
(* bson.ObjectId: str(oid) is its hexadecimal form, ObjectId(s) parses it  *)
(* back and raises InvalidId on anything else.  Ids are short here: two    *)
(* hexadecimal digits.                                                     *)
(***************************************************************************)
HexDigits == <<"0", "1", "2", "3", "4", "5", "6", "7", "8", "9",
               "a", "b", "c", "d", "e", "f">>

OidStr(n) == <<HexDigits[(n \div 16) + 1], HexDigits[(n % 16) + 1]>>

IsHexDigit(c) == \E i \in 1..Len(HexDigits) : HexDigits[i] = c

HexVal(c) == (CHOOSE i \in 1..Len(HexDigits) : HexDigits[i] = c) - 1

ValidOid(s) == /\ Len(s) = Len(OidStr(0))
               /\ \A i \in 1..Len(s) : IsHexDigit(s[i])

ParseOid(s) == HexVal(s[1]) * 16 + HexVal(s[2])

\* serialize_doc that sets "id" and leaves "_id" in the copy
serialize_doc_KeepsUnderscoreId(doc) ==
    IF "_id" \in DOMAIN doc
    THEN [k \in DOMAIN doc \cup {"id"} |->
             IF k = "id" THEN OidStr(doc["_id"]) ELSE doc[k]]
    ELSE doc

(***************************************************************************)
(* main.py:22-26 serialize_doc: a copy of the document in which the key    *)
(* "_id" is replaced by "id", holding str(_id).                            *)
(***************************************************************************)
serialize_doc(doc) ==
    IF "_id" \in DOMAIN doc
    THEN [k \in (DOMAIN doc \ {"_id"}) \cup {"id"} |->
             IF k = "id" THEN OidStr(doc["_id"]) ELSE doc[k]]
    ELSE doc

SerializeAll(docs) == [i \in 1..Len(docs) |-> serialize_doc(docs[i])]

(***************************************************************************)
(* Text search.  A $regex of literal characters with $options "i" matches  *)
(* a string that holds the pattern as a substring, letter case ignored.    *)
(***************************************************************************)
LowerChar(c) == CASE c = "A" -> "a" [] c = "B" -> "b" [] OTHER -> c

RegexSearchI(pat, s) ==
    \E i \in 0..(Len(s) - Len(pat)) :
        \A j \in 1..Len(pat) : LowerChar(s[i + j]) = LowerChar(pat[j])

\* a field holding None, or a missing field, is matched by no regex
RegexField(doc, field, pat) ==
    /\ field \in DOMAIN doc
    /\ IF field = "title"
       THEN RegexSearchI(pat, doc[field])
       ELSE \E s \in doc[field] : RegexSearchI(pat, s)

\* list_products with the size parameter stored under the key of
\* material_type
ListProductsFilter_SizeAsMaterial(category, material_type, size, q) ==
    LET keys == {"is_active"}
                \cup (IF TruthyStr(category) THEN {"category"} ELSE {})
                \cup (IF TruthyStr(material_type) \/ TruthyStr(size)
                      THEN {"material_type"} ELSE {})
                \cup (IF TruthyChars(q) THEN {"$or"} ELSE {})
    IN  [k \in keys |->
            CASE k = "is_active" -> TRUE
              [] k = "category" -> Get(category)
              [] k = "material_type" -> IF TruthyStr(size) THEN Get(size)
                                        ELSE Get(material_type)
              [] k = "$or" -> <<[field |-> "title", regex |-> Get(q), options |-> "i"],
                                [field |-> "description", regex |-> Get(q), options |-> "i"]>>]

(***************************************************************************)
(* main.py:56-68 list_products: the filter handed to get_documents.        *)
(***************************************************************************)
ListProductsFilter(category, material_type, size, q) ==
    LET keys == {"is_active"}
                \cup (IF TruthyStr(category) THEN {"category"} ELSE {})
                \cup (IF TruthyStr(material_type) THEN {"material_type"} ELSE {})
                \cup (IF TruthyStr(size) THEN {"size"} ELSE {})
                \cup (IF TruthyChars(q) THEN {"$or"} ELSE {})
    IN  [k \in keys |->
            CASE k = "is_active" -> TRUE
              [] k = "category" -> Get(category)
              [] k = "material_type" -> Get(material_type)
              [] k = "size" -> Get(size)
              [] k = "$or" -> <<[field |-> "title", regex |-> Get(q), options |-> "i"],
                                [field |-> "description", regex |-> Get(q), options |-> "i"]>>]

\* list_projects without the is_active constraint
ListProjectsFilter_All == [k \in {} |-> TRUE]

\* main.py:93 list_projects
ListProjectsFilter == [k \in {"is_active"} |-> TRUE]

(***************************************************************************)
(* The document-store accessor (database.py: db, create_document,          *)
(* get_documents) and the driver's find / find_one / insert_one.           *)
(***************************************************************************)
\* A document field equals a filter value.  category and is_active hold the
\* value itself, the Optional fields hold None or the value.
FieldEquals(doc, k, v) ==
    /\ k \in DOMAIN doc
    /\ IF k \in {"material_type", "size"} THEN doc[k] = Some(v) ELSE doc[k] = v

MatchesFilter(doc, filt) ==
    \A k \in DOMAIN filt :
        IF k = "$or"
        THEN \E i \in 1..Len(filt[k]) :
                 RegexField(doc, filt[k][i].field, filt[k][i].regex)
        ELSE FieldEquals(doc, k, filt[k])

RECURSIVE SelectSeq2(_, _)
SelectSeq2(docs, filt) ==
    IF docs = <<>> THEN <<>>
    ELSE (IF MatchesFilter(Head(docs), filt) THEN <<Head(docs)>> ELSE <<>>)
         \o SelectSeq2(Tail(docs), filt)

Take(docs, limit) ==
    IF limit = None \/ Get(limit) = 0 \/ Get(limit) >= Len(docs)
    THEN docs
    ELSE SubSeq(docs, 1, Get(limit))

\* get_documents(collection_name, filter_dict, limit): the matching documents
\* in insertion order, at most `limit` of them.
get_documents(coll, filt, limit) == Take(SelectSeq2(store[coll], filt), limit)

\* db[coll].find_one({"_id": oid}): the set holding the document, or None
find_one(coll, oid) ==
    IF \E i \in 1..Len(store[coll]) : store[coll][i]["_id"] = oid
    THEN Some(store[coll][CHOOSE i \in 1..Len(store[coll]) : store[coll][i]["_id"] = oid])
    ELSE None

\* the document create_document stores for a validated payload
NewDoc(payload, oid) ==
    [k \in DOMAIN payload \cup {"_id"} |-> IF k = "_id" THEN oid ELSE payload[k]]

\* create_document(collection_name, data): inserts the payload as a new
\* document and returns str(inserted_id); raises when the database is
\* unavailable (db is None) or the driver fails (err).
create_document(coll, payload, err) ==
    IF db /\ ~err
    THEN [raised |-> FALSE,
          id     |-> OidStr(nextOid),
          store  |-> [store EXCEPT ![coll] = Append(@, NewDoc(payload, nextOid))]]
    ELSE [raised |-> TRUE, id |-> <<>>, store |-> store]

(***************************************************************************)
(* main.py:121-148 maybe_send_email.                                       *)
(***************************************************************************)
Digits == <<"0", "1", "2", "3", "4", "5", "6", "7", "8", "9">>

IsDigit(c) == \E i \in 1..Len(Digits) : Digits[i] = c

DigitVal(c) == (CHOOSE i \in 1..Len(Digits) : Digits[i] = c) - 1

\* int(s) raises ValueError unless s is a decimal literal
IsIntLiteral(s) == Len(s) > 0 /\ \A i \in 1..Len(s) : IsDigit(s[i])

RECURSIVE IntOf(_)
IntOf(s) == IF Len(s) = 0 THEN 0
            ELSE IntOf(SubSeq(s, 1, Len(s) - 1)) * 10 + DigitVal(s[Len(s)])

\* os.getenv(name, default)
GetenvOr(name, dflt) == IF environ[name] = None THEN dflt ELSE Get(environ[name])

\* what the SMTP server saw of one call: whether a connection was opened,
\* whether login was attempted, the messages handed over by sendmail, and
\* the step of the session that failed
NoSession == [opened |-> FALSE, login |-> FALSE, handed |-> {}, failed |-> "none"]

NotConfigured == <<"SMTP not configured; entry logged to database only.">>

EmailResult(sent, detail) == [sent |-> sent, detail |-> detail]

\* SmtpSession with the try block ending before sendmail: a failure of
\* sendmail is not reported
SmtpSession_SendUnchecked(host, port, user, pass, from, to, subject, body, fault) ==
    LET msg      == [Subject |-> subject, From |-> from, To |-> to, body |-> body]
        doLogin  == TruthyStr(user) /\ TruthyStr(pass)
    IN  IF fault = "connect"
        THEN [raised |-> FALSE,
              result |-> EmailResult(FALSE, <<"Email error: ", fault>>),
              session |-> [opened |-> FALSE, login |-> FALSE, handed |-> {},
                           failed |-> fault]]
        ELSE [raised |-> FALSE, result |-> EmailResult(TRUE, <<"Email sent">>),
              session |-> [opened |-> TRUE, login |-> doLogin,
                           handed |-> IF fault = "send" THEN {} ELSE {msg},
                           failed |-> IF fault = "send" THEN fault ELSE "none"]]

\* main.py:136-148: the SMTP_SSL session.  fault names the step of the
\* session at which the server or the network fails ("none": no failure);
\* a login failure can only happen when login is attempted.
SmtpSession(host, port, user, pass, from, to, subject, body, fault) ==
    LET msg      == [Subject |-> subject, From |-> from, To |-> to, body |-> body]
        doLogin  == TruthyStr(user) /\ TruthyStr(pass)
        error    == EmailResult(FALSE, <<"Email error: ", fault>>)
    IN  CASE fault = "connect" ->
               [raised |-> FALSE, result |-> error,
                session |-> [opened |-> FALSE, login |-> FALSE, handed |-> {},
                             failed |-> fault]]
          [] fault = "login" /\ doLogin ->
               [raised |-> FALSE, result |-> error,
                session |-> [opened |-> TRUE, login |-> TRUE, handed |-> {},
                             failed |-> fault]]
          [] fault = "send" ->
               [raised |-> FALSE, result |-> error,
                session |-> [opened |-> TRUE, login |-> doLogin, handed |-> {},
                             failed |-> fault]]
          [] fault = "close" ->
               [raised |-> FALSE, result |-> error,
                session |-> [opened |-> TRUE, login |-> doLogin, handed |-> {msg},
                             failed |-> fault]]
          [] OTHER ->
               [raised |-> FALSE, result |-> EmailResult(TRUE, <<"Email sent">>),
                session |-> [opened |-> TRUE, login |-> doLogin, handed |-> {msg},
                             failed |-> "none"]]

maybe_send_email(subject, body, fault) ==
    LET smtp_host == environ["SMTP_HOST"]
        port_text == GetenvOr("SMTP_PORT", <<"0">>)
        smtp_user == environ["SMTP_USER"]
        smtp_pass == environ["SMTP_PASS"]
        email_to  == environ["EMAIL_TO"]
        email_from == GetenvOr("EMAIL_FROM", OrElse(smtp_user, "noreply@example.com"))
    IN  IF ~IsIntLiteral(port_text)
        THEN \* line 127: int() raises ValueError, outside the try block
             [raised |-> TRUE, session |-> NoSession,
              result |-> EmailResult(FALSE, <<"ValueError">>)]
        ELSE LET smtp_port == IF IntOf(port_text) = 0 THEN None
                              ELSE Some(IntOf(port_text))
             IN  IF ~(TruthyStr(smtp_host) /\ smtp_port # None /\ TruthyStr(email_to))
                 THEN [raised |-> FALSE, session |-> NoSession,
                       result |-> EmailResult(FALSE, NotConfigured)]
                 ELSE SmtpSession(Get(smtp_host), Get(smtp_port), smtp_user, smtp_pass,
                                  email_from, Get(email_to), subject, body, fault)

Faults == {"none", "connect", "login", "send", "close"}

(***************************************************************************)
(* Requests: the payloads the schemas accept (src/schemas.py) and the      *)
(* query parameters tried.                                                 *)
(***************************************************************************)
Timber == "Timber & Plywood"
Steel  == "Steel & Rebar"

\* schemas.py:6-15 Product
Product(title, description, category, material_type, size, is_active) ==
    [title |-> title, description |-> description, category |-> category,
     material_type |-> material_type, size |-> size, weight |-> None,
     images |-> <<>>, specs |-> Some(<<>>), is_active |-> is_active]

ProductPayloads ==
    { Product(<<"A", "b">>, None, Timber, Some("oak"), Some("2x4"), TRUE),
      Product(<<"b">>, Some(<<"a">>), Timber, None, None, FALSE),
      Product(<<"c">>, Some(<<"B", "a">>), Steel, Some("oak"), None, TRUE) }

\* schemas.py:17-23 Project
Project(title, description, is_featured, is_active) ==
    [title |-> title, description |-> description, materials_used |-> <<>>,
     images |-> <<>>, is_featured |-> is_featured, is_active |-> is_active]

ProjectPayloads ==
    { Project(<<"a">>, None, FALSE, TRUE),
      Project(<<"b">>, Some(<<"c">>), TRUE, FALSE) }

\* schemas.py:25-31 QuoteRequest
QuotePayloads ==
    { [name |-> "n", company |-> None, email |-> "a@b.c", phone |-> None,
       message |-> None, product |-> None],
      [name |-> "m", company |-> Some("co"), email |-> "a@b.c", phone |-> Some("1"),
       message |-> Some("hi"), product |-> Some("oak")] }

\* schemas.py:33-39 ContactMessage
ContactPayloads ==
    { [name |-> "n", company |-> Some("co"), email |-> "a@b.c", phone |-> None,
       message |-> "hi", interest |-> None] }

CategoryParams == {None, Some(""), Some(Timber), Some(Steel)}
MaterialParams == {None, Some("oak")}
SizeParams     == {None, Some("2x4")}
QParams        == {None, Some(<<>>), Some(<<"a">>), Some(<<"B">>)}
\* limit is Optional[int] with default 100: a request leaves it out or gives a number
LimitParams    == {Some(1), Some(DefaultLimit)}

FirstOid == 15

IdParams == {OidStr(n) : n \in FirstOid..(FirstOid + MaxDocs)}
            \cup {<<"z", "z">>, <<"1">>}

\* the process environment read by maybe_send_email (main.py:126-131)
Env(host, port, user, pass, to) ==
    [SMTP_HOST |-> host, SMTP_PORT |-> port, SMTP_USER |-> user,
     SMTP_PASS |-> pass, EMAIL_TO |-> to, EMAIL_FROM |-> None]

PortTexts == {None, Some(<<"0">>), Some(<<"4", "6", "5">>), Some(<<"a", "b">>)}

EnvAll == { Env(h, p, u, w, t) : h \in {None, Some("smtp.x")}, p \in PortTexts,
                                 u \in {None, Some("u")}, w \in {None, Some("w")},
                                 t \in {None, Some("to@x")} }

\* one environment with SMTP configured
EnvSome == { Env(Some("smtp.x"), Some(<<"4", "6", "5">>), Some("u"), Some("w"), Some("to@x")) }

(***************************************************************************)
(* Responses.  An exception that leaves a handler is answered 500 by the   *)
(* framework; HTTPException(404) is answered 404.                          *)
(***************************************************************************)
Response(handler, status, body) == [handler |-> handler, status |-> status, body |-> body]

ServerError(handler) == Response(handler, 500, [detail |-> "Internal Server Error"])

NotFound(handler, detail) == Response(handler, 404, [detail |-> detail])

Frame == UNCHANGED <<db, environ, store, nextOid, inserted, pc, cur, trace, smtp>>

\* main.py:29-31
root == /\ resp' = Response("root", 200,
                            [status |-> "ok", service |-> "Diwan Al-Ardiya Backend"])
        /\ Frame

\* main.py:34-40; err: list_collection_names (or bool(db)) raises
test_database ==
    \E err \in BOOLEAN :
        /\ resp' = IF err
                   THEN Response("test_database", 200,
                                 [backend |-> "running", db_connected |-> FALSE,
                                  error |-> "error"])
                   ELSE Response("test_database", 200,
                                 [backend |-> "running", db_connected |-> db,
                                  collections |-> IF db
                                                  THEN {c \in Collections : Len(store[c]) > 0}
                                                  ELSE {}])
        /\ Frame

\* main.py:44-51
get_categories ==
    /\ resp' = Response("get_categories", 200,
                        <<"Timber & Plywood", "Steel & Rebar", "Fixings & Hardware",
                          "HVAC & Installation">>)
    /\ Frame

\* main.py:54-70
ListProductsResponse(category, material_type, size, q, limit, err) ==
    IF db /\ ~err
    THEN Response("list_products", 200,
                  SerializeAll(get_documents("product",
                                   ListProductsFilter(category, material_type, size, q),
                                   limit)))
    ELSE ServerError("list_products")

list_products ==
    \E err \in BOOLEAN :
        /\ IF db /\ ~err
           THEN resp' \in { ListProductsResponse(category, material_type, size, q, limit, err) :
                             category \in CategoryParams, material_type \in MaterialParams,
                             size \in SizeParams, q \in QParams, limit \in LimitParams }
           ELSE resp' = ListProductsResponse(None, None, None, None, Some(DefaultLimit), err)
        /\ Frame

\* main.py:91-94
ListProjectsResponse(limit, err) ==
    IF db /\ ~err
    THEN Response("list_projects", 200,
                  SerializeAll(get_documents("project", ListProjectsFilter, limit)))
    ELSE ServerError("list_projects")

list_projects ==
    \E limit \in LimitParams, err \in BOOLEAN :
        /\ resp' = ListProjectsResponse(limit, err)
        /\ Frame

\* the lookup without its except clause: only HTTPException(404) is
\* answered 404, any other exception leaves the handler
GetById_NoExcept(handler, coll, detail, id, err) ==
    IF ~db \/ ~ValidOid(id) \/ err
    THEN ServerError(handler)
    ELSE IF find_one(coll, ParseOid(id)) = None
         THEN NotFound(handler, detail)
         ELSE Response(handler, 200, serialize_doc(Get(find_one(coll, ParseOid(id)))))

\* main.py:73-81 and 97-105: the body of the try block ends with the
\* document, with HTTPException(404), or with another exception (db is None,
\* InvalidId, a driver error); the except clause answers 404 for both.
GetById(handler, coll, detail, id, err) ==
    LET tried == IF ~db \/ ~ValidOid(id) \/ err
                 THEN [outcome |-> "exception", doc |-> None]
                 ELSE IF find_one(coll, ParseOid(id)) = None
                      THEN [outcome |-> "http404", doc |-> None]
                      ELSE [outcome |-> "doc", doc |-> find_one(coll, ParseOid(id))]
    IN  IF tried.outcome = "doc"
        THEN Response(handler, 200, serialize_doc(Get(tried.doc)))
        ELSE NotFound(handler, detail)

GetProductResponse(id, err) == GetById("get_product", "product", "Product not found", id, err)

GetProjectResponse(id, err) == GetById("get_project", "project", "Project not found", id, err)

get_product ==
    \E id \in IdParams, err \in BOOLEAN :
        /\ resp' = GetProductResponse(id, err)
        /\ Frame

get_project ==
    \E id \in IdParams, err \in BOOLEAN :
        /\ resp' = GetProjectResponse(id, err)
        /\ Frame

\* main.py:84-87 and 108-111
Create(handler, coll, payload, err) ==
    LET r == create_document(coll, payload, err)
    IN  /\ ~r.raised => nextOid < FirstOid + MaxDocs
        /\ store' = r.store
        /\ nextOid' = IF r.raised THEN nextOid ELSE nextOid + 1
        /\ inserted' = IF r.raised THEN inserted
                       ELSE [inserted EXCEPT ![coll] = @ + 1]
        /\ resp' = IF r.raised THEN ServerError(handler)
                   ELSE Response(handler, 200, [id |-> r.id])
        /\ UNCHANGED <<db, environ, pc, cur, trace, smtp>>

create_product ==
    \E payload \in ProductPayloads, err \in BOOLEAN :
        Create("create_product", "product", payload, err)

\* create_project inserting into the collection of create_product
create_project_WrongCollection ==
    \E payload \in ProjectPayloads, err \in BOOLEAN :
        Create("create_project", "product", payload, err)

create_project ==
    \E payload \in ProjectPayloads, err \in BOOLEAN :
        Create("create_project", "project", payload, err)

(***************************************************************************)
(* main.py:151-175 create_quote, create_contact: the insert, then the      *)
(* email attempt and the response.                                         *)
(***************************************************************************)
NoCur == [handler |-> "none", id |-> <<>>, payload |-> <<>>]

\* main.py:155-160
QuoteBody(payload) ==
    <<"New Quote Request", payload.name, OrElse(payload.company, "-"), payload.email,
      OrElse(payload.phone, "-"), OrElse(payload.product, "-"),
      OrElse(payload.message, "-")>>

\* main.py:168-173
ContactBody(payload) ==
    <<"New Contact Message", payload.name, OrElse(payload.company, "-"), payload.email,
      OrElse(payload.phone, "-"), OrElse(payload.interest, "-"), payload.message>>

\* LeadInsert with the exception of create_document caught and the handler
\* going on to the email
LeadInsert_SwallowsFailure(handler, coll, payload, err) ==
    LET r == create_document(coll, payload, err)
    IN  /\ pc = "idle"
        /\ ~r.raised => nextOid < FirstOid + MaxDocs
        /\ store' = r.store
        /\ smtp' = NoSession
        /\ pc' = handler
        /\ cur' = [handler |-> handler, id |-> r.id, payload |-> payload]
        /\ IF r.raised
           THEN /\ trace' = <<"insert_failed">>
                /\ UNCHANGED <<nextOid, inserted>>
           ELSE /\ nextOid' = nextOid + 1
                /\ inserted' = [inserted EXCEPT ![coll] = @ + 1]
                /\ trace' = <<"insert">>
        /\ UNCHANGED <<db, environ, resp>>

\* main.py:154, 167: create_document; an exception ends the request
LeadInsert(handler, coll, payload, err) ==
    LET r == create_document(coll, payload, err)
    IN  /\ pc = "idle"
        /\ ~r.raised => nextOid < FirstOid + MaxDocs
        /\ store' = r.store
        /\ smtp' = NoSession
        /\ IF r.raised
           THEN /\ resp' = ServerError(handler)
                /\ trace' = <<"insert_failed">>
                /\ UNCHANGED <<nextOid, inserted, pc, cur>>
           ELSE /\ nextOid' = nextOid + 1
                /\ inserted' = [inserted EXCEPT ![coll] = @ + 1]
                /\ pc' = handler
                /\ cur' = [handler |-> handler, id |-> r.id, payload |-> payload]
                /\ trace' = <<"insert">>
                /\ UNCHANGED resp
        /\ UNCHANGED <<db, environ>>

\* LeadEmail with the stored document deleted again when the email was not sent
LeadEmail_RollsBack(handler, subject, body, fault) ==
    LET r    == maybe_send_email(subject, body, fault)
        coll == IF handler = "create_quote" THEN "quoterequest" ELSE "contactmessage"
        kept == SelectSeq(store[coll], LAMBDA d : OidStr(d["_id"]) # cur.id)
    IN  /\ pc = handler
        /\ smtp' = r.session
        /\ trace' = Append(trace, "email")
        /\ resp' = IF r.raised THEN ServerError(handler)
                   ELSE Response(handler, 200, [id |-> cur.id, email |-> r.result])
        /\ store' = IF r.raised \/ r.result.sent THEN store
                    ELSE [store EXCEPT ![coll] = kept]
        /\ pc' = "idle"
        /\ cur' = NoCur
        /\ UNCHANGED <<db, environ, nextOid, inserted>>

\* main.py:161-162, 174-175: maybe_send_email, then the response
LeadEmail(handler, subject, body, fault) ==
    LET r == maybe_send_email(subject, body, fault)
    IN  /\ pc = handler
        /\ smtp' = r.session
        /\ trace' = Append(trace, "email")
        /\ resp' = IF r.raised THEN ServerError(handler)
                   ELSE Response(handler, 200, [id |-> cur.id, email |-> r.result])
        /\ pc' = "idle"
        /\ cur' = NoCur
        /\ UNCHANGED <<db, environ, store, nextOid, inserted>>

create_quote_insert ==
    \E payload \in QuotePayloads, err \in BOOLEAN :
        LeadInsert("create_quote", "quoterequest", payload, err)

create_quote_email ==
    \E fault \in Faults :
        LeadEmail("create_quote", "New Quote Request", QuoteBody(cur.payload), fault)

create_contact_insert ==
    \E payload \in ContactPayloads, err \in BOOLEAN :
        LeadInsert("create_contact", "contactmessage", payload, err)

create_contact_email ==
    \E fault \in Faults :
        LeadEmail("create_contact", "New Contact Message", ContactBody(cur.payload), fault)

(***************************************************************************)
(* Specifications.                                                         *)
(***************************************************************************)
InitWith(envs) ==
    /\ db \in BOOLEAN
    /\ environ \in envs
    /\ store = [c \in Collections |-> <<>>]
    /\ nextOid = FirstOid
    /\ inserted = [c \in Collections |-> 0]
    /\ pc = "idle"
    /\ cur = NoCur
    /\ trace = <<>>
    /\ smtp = NoSession
    /\ resp = Response("none", 0, <<>>)

Init == InitWith(EnvSome)

Next ==
    \/ root
    \/ test_database
    \/ get_categories
    \/ list_products
    \/ get_product
    \/ create_product
    \/ list_projects
    \/ get_project
    \/ create_project
    \/ create_quote_insert
    \/ create_quote_email
    \/ create_contact_insert
    \/ create_contact_email

Spec == Init /\ [][Next]_vars

\* the two lead-capture forms alone, under every environment
InitMail == InitWith(EnvAll)

NextMail ==
    \/ create_quote_insert
    \/ create_quote_email
    \/ create_contact_insert
    \/ create_contact_email

SpecMail == InitMail /\ [][NextMail]_vars

\* the catalogue and portfolio endpoints alone
InitCatalog == InitWith({Env(None, None, None, None, None)})

NextCatalog ==
    \/ root
    \/ test_database
    \/ get_categories
    \/ list_products
    \/ get_product
    \/ create_product
    \/ list_projects
    \/ get_project
    \/ create_project

SpecCatalog == InitCatalog /\ [][NextCatalog]_vars

(***************************************************************************)
(* Properties of create_quote / create_contact and maybe_send_email,       *)
(* checked under SpecMail.                                                 *)
(***************************************************************************)
LeadHandlers == {"create_quote", "create_contact"}

LeadCollection(handler) ==
    IF handler = "create_quote" THEN "quoterequest" ELSE "contactmessage"

\* the latest create_quote / create_contact request inserted its document
\* and has run to its end
LeadDone == pc = "idle" /\ trace = <<"insert", "email">>

\* the ids of the documents of a collection, as strings
IdsOf(coll) == {OidStr(store[coll][i]["_id"]) : i \in 1..Len(store[coll])}

\* C1: best-effort email.  Every create_quote / create_contact request whose
\* insert succeeded is answered 200 with the inserted id and an email result,
\* whatever happens in the email attempt.
C1_EmailNeverFailsRequest ==
    LeadDone =>
        /\ resp.handler \in LeadHandlers
        /\ resp.status = 200
        /\ DOMAIN resp.body = {"id", "email"}
        /\ resp.body.id \in IdsOf(LeadCollection(resp.handler))

\* the steps of a create_quote / create_contact request
C2_EmailStep ==
    trace' = Append(trace, "email") =>
        /\ trace = <<"insert">>
        /\ pc \in LeadHandlers
        /\ cur.id \in IdsOf(LeadCollection(pc))

C2_FailedInsertStep ==
    (trace' = <<"insert_failed">> /\ pc = "idle") =>
        /\ pc' = "idle"
        /\ store' = store
        /\ smtp' = NoSession
        /\ resp'.handler \in LeadHandlers
        /\ resp'.status = 500
        /\ "id" \notin DOMAIN resp'.body

\* C2: the insert comes before the email attempt.  An email step is taken
\* only by a request whose document is already in its collection; a request
\* whose insert fails ends there, answered 500 with no id, with nothing
\* stored and nothing sent to the SMTP server.
C2_InsertBeforeEmail ==
    [][/\ C2_EmailStep
       /\ C2_FailedInsertStep
       /\ (smtp' # NoSession => trace' = <<"insert", "email">>)]_vars

C2_Witness == LeadDone /\ smtp.handed # {}

\* C3: lead documents are persisted independently of the email outcome.  The
\* quoterequest (contactmessage) collection holds exactly one document per
\* create_quote (create_contact) request whose insert succeeded, each under
\* its own id, whatever became of the email.
C3_OneDocumentPerInsert ==
    \A coll \in {"quoterequest", "contactmessage"} :
        /\ Len(store[coll]) = inserted[coll]
        /\ Cardinality(IdsOf(coll)) = Len(store[coll])
        /\ (LeadDone /\ resp.status = 200 /\ LeadCollection(resp.handler) = coll)
               => resp.body.id \in IdsOf(coll)

C3_Witness ==
    /\ LeadDone
    /\ resp.status = 200
    /\ ~resp.body.email.sent
    /\ smtp.failed = "send"
    /\ inserted["quoterequest"] = 1
    /\ inserted["contactmessage"] = 1

\* the settings maybe_send_email needs (main.py:133)
PortMissing ==
    \/ environ["SMTP_PORT"] = None
    \/ /\ IsIntLiteral(Get(environ["SMTP_PORT"]))
       /\ IntOf(Get(environ["SMTP_PORT"])) = 0

SettingMissing ==
    \/ ~TruthyStr(environ["SMTP_HOST"])
    \/ PortMissing
    \/ ~TruthyStr(environ["EMAIL_TO"])

\* C4: email forwarding is optional.  When SMTP_HOST, a non-zero SMTP_PORT or
\* EMAIL_TO is missing, maybe_send_email opens no connection and returns
\* sent=false with the "SMTP not configured" detail; a connection is opened
\* only when all three are set.
C4_NotConfiguredNoEmail ==
    /\ smtp.opened => ~SettingMissing
    /\ (LeadDone /\ SettingMissing) =>
           /\ smtp = NoSession
           /\ resp.status = 200
           /\ resp.body.email = EmailResult(FALSE, NotConfigured)

\* C9: sent=true only after a session that was opened and whose sendmail
\* and close completed; login is attempted only when SMTP_USER and SMTP_PASS
\* are both set; a failure at any step of the session gives sent=false with
\* a detail beginning "Email error:".
C9_SentOnlyIfHandedOver ==
    /\ smtp.login => (smtp.opened /\ TruthyStr(environ["SMTP_USER"])
                                  /\ TruthyStr(environ["SMTP_PASS"]))
    /\ smtp.handed # {} => smtp.opened
    /\ (LeadDone /\ resp.status = 200) =>
           /\ resp.body.email.sent =>
                  (smtp.opened /\ smtp.handed # {} /\ smtp.failed = "none")
           /\ smtp.failed # "none" =>
                  /\ ~resp.body.email.sent
                  /\ resp.body.email.detail[1] = "Email error: "
           /\ (smtp.opened /\ smtp.failed = "none") => resp.body.email.sent
           /\ (smtp.opened /\ TruthyStr(environ["SMTP_USER"])
                           /\ TruthyStr(environ["SMTP_PASS"])) => smtp.login

C9_Witness ==
    /\ LeadDone
    /\ resp.status = 200
    /\ smtp.failed = "close"
    /\ smtp.handed # {}
    /\ ~smtp.login

(***************************************************************************)
(* Properties of the catalogue and portfolio endpoints, checked under      *)
(* SpecCatalog.  A response operator with err = FALSE is the answer of a    *)
(* request whose database call does not fail.                              *)
(***************************************************************************)
\* the constraints the query parameters of list_products put on a product
SatisfiesParams(doc, category, material_type, size, q) ==
    /\ doc.is_active = TRUE
    /\ TruthyStr(category) => doc.category = Get(category)
    /\ TruthyStr(material_type) => doc.material_type = Some(Get(material_type))
    /\ TruthyStr(size) => doc.size = Some(Get(size))
    /\ TruthyChars(q) =>
           \/ RegexSearchI(Get(q), doc.title)
           \/ doc.description # None /\ RegexSearchI(Get(q), Get(doc.description))

SuppliedKeys(category, material_type, size, q) ==
    {"is_active"}
    \cup {k \in {"category"} : category \notin {None, Some("")}}
    \cup {k \in {"material_type"} : material_type \notin {None, Some("")}}
    \cup {k \in {"size"} : size \notin {None, Some("")}}
    \cup {k \in {"$or"} : q \notin {None, Some(<<>>)}}

\* C5: the filter of list_products requires is_active = true and holds one
\* constraint per supplied, non-empty parameter and none for an absent or
\* empty one; every product returned satisfies all of them, for every
\* combination of parameters and every store content.
C5_ListedProductsSatisfyFilter ==
    \A category \in CategoryParams, material_type \in MaterialParams,
       size \in SizeParams, q \in QParams :
        /\ DOMAIN ListProductsFilter(category, material_type, size, q)
               = SuppliedKeys(category, material_type, size, q)
        /\ \A limit \in LimitParams :
             LET r == ListProductsResponse(category, material_type, size, q, limit, FALSE)
             IN  db => /\ r.status = 200
                       /\ \A i \in 1..Len(r.body) :
                            /\ r.body[i].id \in IdsOf("product")
                            /\ SatisfiesParams(r.body[i], category, material_type, size, q)

\* all four parameters supplied: one product is returned and another is not
C5_Witness ==
    /\ db
    /\ Len(store["product"]) = 2
    /\ resp.handler = "list_products"
    /\ resp.status = 200
    /\ Len(resp.body) = 1
    /\ resp = ListProductsResponse(Some(Timber), Some("oak"), Some("2x4"), Some(<<"B">>),
                                   Some(DefaultLimit), FALSE)

CatalogCollections == {"product", "project"}

GetResponse(coll, id, err) ==
    IF coll = "product" THEN GetProductResponse(id, err) ELSE GetProjectResponse(id, err)

CreateHandler(coll) == IF coll = "product" THEN "create_product" ELSE "create_project"

Payloads(coll) == IF coll = "product" THEN ProductPayloads ELSE ProjectPayloads

\* the round trip through one collection
C7_RoundTripOf(coll) ==
    /\ (resp.handler = CreateHandler(coll) /\ resp.status = 200) =>
           /\ DOMAIN resp.body = {"id"}
           /\ resp.body.id \in IdsOf(coll)
    /\ \A i \in 1..Len(store[coll]) :
         LET doc == store[coll][i]
             id  == OidStr(doc["_id"])
             r   == GetResponse(coll, id, FALSE)
         IN  /\ \E payload \in Payloads(coll) : doc = NewDoc(payload, doc["_id"])
             /\ ValidOid(id) /\ ParseOid(id) = doc["_id"]
             /\ r.status = 200
             /\ r.body.id = id
             /\ "_id" \notin DOMAIN r.body
             /\ DOMAIN r.body = (DOMAIN doc \ {"_id"}) \cup {"id"}
             /\ \A k \in DOMAIN doc \ {"_id"} : r.body[k] = doc[k]
             /\ "_id" \in DOMAIN doc

\* C7: create then read round-trips.  The id create_product (create_project)
\* returns names a stored document holding the accepted payload, and
\* get_product (get_project) with the id of a stored document returns it
\* with 'id' equal to that id as a string, without '_id' and with every other
\* field as stored; the stored document is left as it is.
C7_CreateReadRoundTrip == \A coll \in CatalogCollections : C7_RoundTripOf(coll)

\* a product read back under an id whose two digits are both used
C7_Witness ==
    /\ resp.handler = "get_product"
    /\ resp.status = 200
    /\ resp.body.id = OidStr(FirstOid + 1)
    /\ Len(store["project"]) = 1

\* the outcomes of the lookup in one collection
C8_LookupOf(coll, detail) ==
    \A id \in IdParams, err \in BOOLEAN :
        LET r     == GetResponse(coll, id, err)
            found == /\ db /\ ~err /\ ValidOid(id)
                     /\ \E i \in 1..Len(store[coll]) : store[coll][i]["_id"] = ParseOid(id)
        IN  IF found
            THEN /\ r.status = 200
                 /\ \E i \in 1..Len(store[coll]) : r.body = serialize_doc(store[coll][i])
                 /\ r.body.id = id
            ELSE /\ r.status = 404
                 /\ r.body = [detail |-> detail]

\* C8: get_product and get_project have two outcomes: 200 with the
\* serialized document when the lookup succeeds and finds a document with
\* the id, and 404 with their own detail in every other case (invalid id, no
\* such document, db is None, an error raised by the lookup).
C8_FoundOr404 ==
    /\ C8_LookupOf("product", "Product not found")
    /\ C8_LookupOf("project", "Project not found")
    /\ resp.handler \in {"get_product", "get_project"} => resp.status \in {200, 404}

\* an id that is no ObjectId, and the id of a document of the other collection
C8_Witness ==
    /\ db
    /\ Len(store["project"]) = 1
    /\ resp = NotFound("get_product", "Product not found")
    /\ GetProductResponse(<<"z", "z">>, FALSE).status = 404
    /\ \E id \in IdsOf("project") : GetProductResponse(id, FALSE).status = 404

\* the inactive documents of one collection against its listings
C10_HiddenOf(coll, lists) ==
    \A i \in 1..Len(store[coll]) :
        LET doc == store[coll][i]
            id  == OidStr(doc["_id"])
        IN  doc.is_active = FALSE =>
                /\ \A r \in lists : r.status = 200 =>
                       \A j \in 1..Len(r.body) : r.body[j].id # id
                /\ GetResponse(coll, id, FALSE).status = 200
                /\ GetResponse(coll, id, FALSE).body.id = id
                /\ GetResponse(coll, id, FALSE).body.is_active = FALSE

\* C10: a product or project stored with is_active = false is never listed,
\* whatever the parameters, and is still returned by the lookup by id.
C10_InactiveHiddenFromLists ==
    /\ C10_HiddenOf("product",
           { ListProductsResponse(category, material_type, size, q, limit, FALSE) :
               category \in CategoryParams, material_type \in MaterialParams,
               size \in SizeParams, q \in QParams, limit \in LimitParams })
    /\ C10_HiddenOf("project", { ListProjectsResponse(limit, FALSE) : limit \in LimitParams })
    /\ (resp.handler \in {"list_products", "list_projects"} /\ resp.status = 200) =>
           \A j \in 1..Len(resp.body) : resp.body[j].is_active = TRUE

C10_Witness ==
    /\ resp.handler = "get_project"
    /\ resp.status = 200
    /\ resp.body.is_active = FALSE
    /\ \E i \in 1..Len(store["product"]) : store["product"][i].is_active = FALSE

(***************************************************************************)
(* Frame of the handlers, checked under Spec (every endpoint).             *)
(***************************************************************************)
GetHandlers == {"root", "test_database", "get_categories", "list_products",
                "get_product", "list_projects", "get_project"}

\* the step appends exactly one new document to coll
AddsOneTo(coll) ==
    /\ Len(store'[coll]) = Len(store[coll]) + 1
    /\ SubSeq(store'[coll], 1, Len(store[coll])) = store[coll]
    /\ \A c \in Collections : OidStr(store'[coll][Len(store'[coll])]["_id"]) \notin IdsOf(c)
    /\ \A c \in Collections \ {coll} : store'[c] = store[c]

\* a step of a GET handler: it answers, and no lead request moves
GetStep == resp'.handler \in GetHandlers /\ pc' = pc /\ trace' = trace

\* a step of create_product / create_project that returns an id
CreateStep(coll) ==
    /\ resp'.handler = CreateHandler(coll)
    /\ resp'.status = 200
    /\ resp'.body.id = OidStr(nextOid)
    /\ nextOid' # nextOid

\* the insert of a create_quote / create_contact request that goes on
LeadInsertStep(handler) == pc = "idle" /\ pc' = handler

\* the rest of a create_quote / create_contact request
LeadEmailStep(handler) == pc = handler /\ pc' = "idle"

\* the answer of a GET step is the one its handler computes from the
\* parameters, the database handle and the store as they are now
AnswersFromStore ==
    /\ (resp'.handler = "list_products" /\ resp'.status = 200) =>
           \E category \in CategoryParams, material_type \in MaterialParams,
              size \in SizeParams, q \in QParams, limit \in LimitParams :
               resp'.body = ListProductsResponse(category, material_type, size, q,
                                                 limit, FALSE).body
    /\ (resp'.handler = "list_projects" /\ resp'.status = 200) =>
           \E limit \in LimitParams :
               resp'.body = ListProjectsResponse(limit, FALSE).body
    /\ (resp'.handler \in {"list_products", "list_projects"} /\ resp'.status = 200) => db
    /\ \A coll \in CatalogCollections :
         (resp'.handler = GetResponse(coll, <<>>, TRUE).handler /\ resp'.status = 200) =>
             \E i \in 1..Len(store[coll]) : resp'.body = serialize_doc(store[coll][i])

\* what every step of every handler keeps
C6_Step ==
    /\ GetStep => /\ UNCHANGED <<db, environ, store, nextOid, inserted, pc, cur, trace, smtp>>
                  /\ AnswersFromStore
    /\ \A coll \in CatalogCollections : CreateStep(coll) => AddsOneTo(coll)
    /\ \A h \in LeadHandlers :
         /\ LeadInsertStep(h) => AddsOneTo(LeadCollection(h))
         /\ LeadEmailStep(h) =>
                /\ store' = store
                /\ resp'.status = 200 => resp'.body.id \in IdsOf(LeadCollection(h))
    /\ store' # store =>
         \/ \E coll \in CatalogCollections : CreateStep(coll)
         \/ \E h \in LeadHandlers : LeadInsertStep(h)
    /\ UNCHANGED <<db, environ>>

\* C6: no handler keeps state between requests.  A GET endpoint leaves every
\* collection, and everything but the response, unchanged; a POST endpoint
\* whose insert succeeds adds exactly one document, to its own collection;
\* no step changes an existing document or another collection, and the
\* store changes in no other step.  What a GET answers is computed from its
\* parameters and the store as it is.
C6_HandlersKeepNoState == [][C6_Step]_vars

\* a POST of each of the two kinds has stored its document and a GET has
\* answered from the store
C6_Witness ==
    /\ Len(store["project"]) = 1
    /\ Len(store["contactmessage"]) = 1
    /\ resp.handler = "list_projects"
    /\ resp.status = 200
    /\ Len(resp.body) = 1
    /\ trace = <<"insert", "email">>

====
